---- MODULE Spec2Model ----
(***************************************************************************)
(* pinglist (src/main.go): one pingStats per target, mutated by the        *)
(* callbacks of that target's pinger goroutine and read by the bubbletea   *)
(* Update loop, which re-sorts the targets and rebuilds the table rows on   *)
(* every updateRowsMsg.                                                     *)
(*                                                                         *)
(* Durations are time.Duration values, i.e. integer nanoseconds.  Every    *)
(* pingStats method is a critical section of the target's mtx; the model   *)
(* has one step for Lock() and one step per group of assignments made      *)
(* while the lock is held.                                                 *)
(***************************************************************************)
EXTENDS Integers, Sequences, FiniteSets, TLC

\* ------------------------------------------------------------------ bounds

\* Number of lines of the target list (readPingTargets).
NTargets == 2

\* Packets a pinger sends in the concurrent specification.
MaxSent == 2

\* Distinct round-trip times a reply can carry in the concurrent specification.
NRtt == 2

\* Packets the pinger sends, and distinct round-trip times, in the
\* single-target specifications of the statistics.
MaxSentStats == 5

NRttStats == 3

\* Packets each pinger sends in the liveness specification.
MaxSentLive == 1

Targets == 1..NTargets

\* Round-trip times around the rounding boundary of the display (50us).
RTTs == {40000 + 10000 * k : k \in 0..(NRtt - 1)}

RTTsStats == {10 * k : k \in 1..NRttStats}

\* The round-trip time of the liveness specification: the least of RTTs.
RTTsLive == {r \in RTTs : \A q \in RTTs : r <= q}

\* ------------------------------------------------------------------- state

VARIABLES
    pktsSent,    \* pingStats.pktsSent, per target
    pktsRecv,    \* pingStats.pktsRecv
    rttAvg,      \* pingStats.rttAvg (ns)
    rttVar,      \* pingStats.rttVar (float64 holding an integer here)
    rttStdDev,   \* pingStats.rttStdDev (ns)
    mtx,         \* pingStats.mtx: "free", "pinger" or "ui"
    pinger,      \* position of the target's goroutine (runPing)
    awaiting,    \* the pinger's sequences sent and not yet answered
    rtts,        \* history: the pkt.Rtt of every OnPktRecv call, in order
    orphan,      \* history: an OnPktRecv was called with nothing awaiting
    pings,       \* model.pings: the targets in table order
    prevPings,   \* history: model.pings when the last updateRowsMsg arrived,
                 \* <<>> before the first
    tableRows,   \* the rows last handed to the table
    rows,        \* pingsToRows: the rows built so far
    cur,         \* pingsToRows: the cells of the row being built
    uiPc,        \* position of the main goroutine
    uiHolds,     \* the target whose mtx the main goroutine holds, or 0
    si,          \* insertion sort: outer index i
    sj,          \* insertion sort: inner index j
    cmpLeft,     \* less(i, j): the value of m.pings[i].RttAvg()
    timers,      \* updateRowsCmd commands sleeping or delivered, not handled
    quitCmd      \* tea.Quit was returned and its QuitMsg is not handled yet

stats == <<pktsSent, pktsRecv, rttAvg, rttVar, rttStdDev>>

proberVars == <<pinger, awaiting, rtts, orphan>>

uiVars == <<pings, prevPings, tableRows, rows, cur, uiPc, uiHolds, si, sj,
            cmpLeft, timers, quitCmd>>

vars == <<pktsSent, pktsRecv, rttAvg, rttVar, rttStdDev, mtx, pinger,
          awaiting, rtts, orphan, pings, prevPings, tableRows, rows, cur,
          uiPc, uiHolds, si, sj, cmpLeft, timers, quitCmd>>

\* -------------------------------------------------------------- arithmetic

\* Go's integer division truncates toward zero.
TruncDiv(a, b) ==
    IF a >= 0 THEN a \div b ELSE -((-a) \div b)

RECURSIVE SqrtBetween(_, _, _)
SqrtBetween(x, lo, hi) ==
    IF lo >= hi THEN lo
    ELSE LET mid == (lo + hi + 1) \div 2
         IN  IF mid * mid <= x THEN SqrtBetween(x, mid, hi)
             ELSE SqrtBetween(x, lo, mid - 1)

\* The integer part of the square root of x >= 0.
ISqrt(x) == SqrtBetween(x, 0, 46340)

\* time.Duration(math.Sqrt(v / float64(n - 1))): the conversion truncates.
\* math.Sqrt of a negative number is NaN, whose conversion to an integer is
\* implementation-dependent (the minimum integer on amd64, 0 on arm64).
SqrtDuration(v, n) ==
    IF v >= 0 THEN {ISqrt(v \div (n - 1))} ELSE {0, -2147483647}

\* Duration.Round(m): to the nearest multiple of m, halves away from zero.
RoundDuration(d, m) ==
    LET a == IF d >= 0 THEN d ELSE -d
        r == a % m
        q == IF 2 * r >= m THEN a - r + m ELSE a - r
    IN  IF d >= 0 THEN q ELSE -q

\* 100 * time.Microsecond, in nanoseconds.
RoundUnit == 100000

\* ------------------------------------------------------ pingStats: values

\* A float64 quotient a / b * 100 of two integers, kept exact: a number
\* num / den, or the IEEE value a division by zero yields.
FloatQuotient100(a, b) ==
    IF b # 0 THEN [kind |-> "num", num |-> a * 100, den |-> b]
    ELSE IF a = 0 THEN [kind |-> "NaN", num |-> 0, den |-> 1]
    ELSE IF a > 0 THEN [kind |-> "+Inf", num |-> 0, den |-> 1]
    ELSE [kind |-> "-Inf", num |-> 0, den |-> 1]

\* LossOf with the received packets in the numerator: the share delivered.
LossOfReceived(sent, recv) == FloatQuotient100(recv, sent)

\* The value PktLoss returns for the counters sent and recv.
LossOf(sent, recv) == FloatQuotient100(sent - recv, sent)

\* PktLoss(), read while the lock is held.
PktLoss(t) == LossOf(pktsSent[t], pktsRecv[t])

\* RttAvg(), read while the lock is held.
RttAvg(t) == rttAvg[t]

\* RttStdDev(), read while the lock is held.
RttStdDev(t) == rttStdDev[t]

\* num / den rounded to the nearest integer, halves to even (den > 0, num >= 0).
RoundHalfEven(num, den) ==
    LET q == num \div den
        r == num % den
    IN  IF 2 * r > den \/ (2 * r = den /\ q % 2 = 1) THEN q + 1 ELSE q

\* fmt.Sprintf("%.1f%%", v): the text, given as its kind and its number of
\* tenths of a percent ("50.0%" is 500; "NaN%" has kind "NaN").
FormatLoss(v) ==
    IF v.kind # "num" THEN [kind |-> v.kind, tenths |-> 0]
    ELSE [kind |-> "num",
          tenths |-> IF v.num >= 0 THEN RoundHalfEven(v.num * 10, v.den)
                     ELSE -RoundHalfEven((-v.num) * 10, v.den)]

\* Welford's update of the mean by the n-th sample (n = pktsRecv after the
\* increment).
NewAvg(avg, n, rtt) ==
    IF n = 1 THEN rtt ELSE avg + TruncDiv(rtt - avg, n)

\* NewVar with the second factor taken the wrong way round.
NewVarSignSlip(var, avg, n, rtt) ==
    IF n = 1 THEN 0 ELSE var + (rtt - avg) * (NewAvg(avg, n, rtt) - rtt)

\* NewVar as the naive sum of squared deviations from the old mean.
NewVarOldMean(var, avg, n, rtt) == var + (rtt - avg) * (rtt - avg)

\* Welford's update of the accumulator; the second factor uses the new mean.
NewVar(var, avg, n, rtt) ==
    IF n = 1 THEN 0 ELSE var + (rtt - avg) * (rtt - NewAvg(avg, n, rtt))

\* The values rttStdDev can take after the n-th sample.
NewStdDev(sd, var, avg, n, rtt) ==
    IF n = 1 THEN {sd} ELSE SqrtDuration(NewVar(var, avg, n, rtt), n)

\* ----------------------------------------------------------- goroutines

\* Nothing runs once tea.Program.Run has returned and main has ended.
Alive == uiPc # "exited"

\* runPing: probing.NewPinger succeeded and pinger.Run() is looping.
NewPingerOk(t) ==
    /\ Alive /\ pinger[t] = "idle"
    /\ pinger' = [pinger EXCEPT ![t] = "run"]
    /\ UNCHANGED <<stats, mtx, awaiting, rtts, orphan, uiVars>>

\* NewPingerErr ending the process on the error, as log.Fatal(err) would.
NewPingerErrFatal(t) ==
    /\ Alive /\ pinger[t] = "idle"
    /\ pinger' = [pinger EXCEPT ![t] = "failed"]
    /\ uiPc' = "exited"
    /\ UNCHANGED <<stats, mtx, awaiting, rtts, orphan, pings, prevPings,
                   tableRows, rows, cur, uiHolds, si, sj, cmpLeft, timers,
                   quitCmd>>

\* runPing: NewPinger (or Run) returned an error; the goroutine returns it
\* to nobody and ends.
NewPingerErr(t) ==
    /\ Alive /\ pinger[t] = "idle"
    /\ pinger' = [pinger EXCEPT ![t] = "failed"]
    /\ UNCHANGED <<stats, mtx, awaiting, rtts, orphan, uiVars>>

\* OnPktSend: s.mtx.Lock().  The pinger calls it after writing a packet.
OnPktSendLock(t, maxSent) ==
    /\ Alive /\ pinger[t] = "run" /\ pktsSent[t] < maxSent
    /\ mtx[t] = "free"
    /\ mtx' = [mtx EXCEPT ![t] = "pinger"]
    /\ pinger' = [pinger EXCEPT ![t] = "send"]
    /\ UNCHANGED <<stats, awaiting, rtts, orphan, uiVars>>

\* SentAfterSend without the increment.
SentAfterSendLost(n) == n

\* The counter update of OnPktSend.
SentAfterSend(n) == n + 1

\* OnPktSend: s.pktsSent++ and the deferred Unlock; back in the pinger the
\* sequence number is marked as awaiting its reply.
OnPktSend(t) ==
    /\ Alive /\ pinger[t] = "send"
    /\ pktsSent' = [pktsSent EXCEPT ![t] = SentAfterSend(@)]
    /\ mtx' = [mtx EXCEPT ![t] = "free"]
    /\ pinger' = [pinger EXCEPT ![t] = "run"]
    /\ awaiting' = [awaiting EXCEPT ![t] = @ + 1]
    /\ UNCHANGED <<pktsRecv, rttAvg, rttVar, rttStdDev, rtts, orphan, uiVars>>

\* OnPktRecv: s.mtx.Lock().  The pinger calls it for a reply to a sequence
\* that is awaiting one (anyCaller: the hook is called whatever was sent).
OnPktRecvLock(t, anyCaller, maxRecv) ==
    /\ Alive /\ pinger[t] = "run" /\ pktsRecv[t] < maxRecv
    /\ anyCaller \/ awaiting[t] > 0
    /\ mtx[t] = "free"
    /\ mtx' = [mtx EXCEPT ![t] = "pinger"]
    /\ pinger' = [pinger EXCEPT ![t] = "recv"]
    /\ awaiting' = [awaiting EXCEPT ![t] = IF @ > 0 THEN @ - 1 ELSE 0]
    /\ orphan' = [orphan EXCEPT ![t] = @ \/ awaiting[t] = 0]
    /\ UNCHANGED <<stats, rtts, uiVars>>

\* A counter update that counts a reply twice.
RecvAfterRecvTwice(n) == n + 2

\* OnPktRecv returning without its deferred Unlock.
OnPktRecvNoUnlock(t, rtt) ==
    /\ Alive /\ pinger[t] = "recvStats"
    /\ rttAvg' = [rttAvg EXCEPT ![t] = NewAvg(@, pktsRecv[t], rtt)]
    /\ rttVar' = [rttVar EXCEPT ![t] = NewVar(@, rttAvg[t], pktsRecv[t], rtt)]
    /\ \E sd \in NewStdDev(rttStdDev[t], rttVar[t], rttAvg[t], pktsRecv[t], rtt) :
           rttStdDev' = [rttStdDev EXCEPT ![t] = sd]
    /\ pinger' = [pinger EXCEPT ![t] = "run"]
    /\ rtts' = [rtts EXCEPT ![t] = Append(@, rtt)]
    /\ UNCHANGED <<pktsSent, pktsRecv, mtx, awaiting, orphan, uiVars>>

\* The counter update of OnPktRecv.
RecvAfterRecv(n) == n + 1

\* OnPktRecv: s.pktsRecv++.
OnPktRecvCount(t) ==
    /\ Alive /\ pinger[t] = "recv"
    /\ pktsRecv' = [pktsRecv EXCEPT ![t] = RecvAfterRecv(@)]
    /\ pinger' = [pinger EXCEPT ![t] = "recvStats"]
    /\ UNCHANGED <<pktsSent, rttAvg, rttVar, rttStdDev, mtx, awaiting, rtts,
                   orphan, uiVars>>

\* OnPktRecv: the update of rttAvg, rttVar and rttStdDev by pkt.Rtt, and the
\* deferred Unlock.
OnPktRecv(t, rtt) ==
    /\ Alive /\ pinger[t] = "recvStats"
    /\ rttAvg' = [rttAvg EXCEPT ![t] = NewAvg(@, pktsRecv[t], rtt)]
    /\ rttVar' = [rttVar EXCEPT ![t] = NewVar(@, rttAvg[t], pktsRecv[t], rtt)]
    /\ \E sd \in NewStdDev(rttStdDev[t], rttVar[t], rttAvg[t], pktsRecv[t], rtt) :
           rttStdDev' = [rttStdDev EXCEPT ![t] = sd]
    /\ mtx' = [mtx EXCEPT ![t] = "free"]
    /\ pinger' = [pinger EXCEPT ![t] = "run"]
    /\ rtts' = [rtts EXCEPT ![t] = Append(@, rtt)]
    /\ UNCHANGED <<pktsSent, pktsRecv, awaiting, orphan, uiVars>>

\* ------------------------------------------------ main goroutine: the rows

NoCells == [n |-> 0, loss |-> [kind |-> "num", tenths |-> 0], avg |-> 0,
            avgRead |-> 0, recvAtLoss |-> 0, torn |-> FALSE]

\* The pingStats whose method the main goroutine is calling: the one of the
\* row being built, or an operand of the comparison in progress.
UITarget ==
    IF uiPc = "rows" THEN pings[Len(rows) + 1]
    ELSE IF cmpLeft = <<>> THEN pings[sj]
    ELSE pings[sj - 1]

\* An accessor that goes ahead without waiting for the Target's mutex.
UILockNoWait ==
    /\ uiPc \in {"rows", "sort"} /\ uiHolds = 0
    /\ mtx' = [mtx EXCEPT ![UITarget] = "ui"]
    /\ uiHolds' = UITarget
    /\ UNCHANGED <<stats, proberVars, pings, prevPings, tableRows, rows, cur,
                   uiPc, si, sj, cmpLeft, timers, quitCmd>>

\* s.mtx.Lock() of the accessor the main goroutine calls next.
UILock ==
    /\ uiPc \in {"rows", "sort"} /\ uiHolds = 0
    /\ mtx[UITarget] = "free"
    /\ mtx' = [mtx EXCEPT ![UITarget] = "ui"]
    /\ uiHolds' = UITarget
    /\ UNCHANGED <<stats, proberVars, pings, prevPings, tableRows, rows, cur,
                   uiPc, si, sj, cmpLeft, timers, quitCmd>>

\* pingsToRows: the cell fmt.Sprintf("%.1f%%", s.PktLoss()).
RowPktLoss ==
    /\ uiPc = "rows" /\ uiHolds # 0 /\ cur.n = 0
    /\ cur' = [cur EXCEPT !.n = 1,
                          !.loss = FormatLoss(PktLoss(uiHolds)),
                          !.recvAtLoss = pktsRecv[uiHolds]]
    /\ mtx' = [mtx EXCEPT ![uiHolds] = "free"]
    /\ uiHolds' = 0
    /\ UNCHANGED <<stats, proberVars, pings, prevPings, tableRows, rows,
                   uiPc, si, sj, cmpLeft, timers, quitCmd>>

\* pingsToRows: the cell s.RttAvg().Round(100 * time.Microsecond).String().
\* A duration's text is given as the duration it denotes.
RowRttAvg ==
    /\ uiPc = "rows" /\ uiHolds # 0 /\ cur.n = 1
    /\ cur' = [cur EXCEPT !.n = 2,
                          !.avg = RoundDuration(RttAvg(uiHolds), RoundUnit),
                          !.avgRead = RttAvg(uiHolds),
                          !.torn = (pktsRecv[uiHolds] # cur.recvAtLoss)]
    /\ mtx' = [mtx EXCEPT ![uiHolds] = "free"]
    /\ uiHolds' = 0
    /\ UNCHANGED <<stats, proberVars, pings, prevPings, tableRows, rows,
                   uiPc, si, sj, cmpLeft, timers, quitCmd>>

\* The row of target t once its last cell sd is known.
RowOf(t, c, sd, recvAtSd) ==
    [name |-> t, loss |-> c.loss, avg |-> c.avg,
     sd |-> RoundDuration(sd, RoundUnit), avgRead |-> c.avgRead,
     torn |-> (c.torn \/ recvAtSd # c.recvAtLoss)]

\* pingsToRows: the cell s.RttStdDev().Round(...).String(), which completes
\* the row.  After the last row pingsToRows returns: the rows go to the table
\* (newTable in main, SetRows in Update) and updateRowsCmd is started (Init
\* after main's rows, Update's return value after a tick).
RowRttStdDev ==
    /\ uiPc = "rows" /\ uiHolds # 0 /\ cur.n = 2
    /\ LET built == Append(rows, RowOf(uiHolds, cur, RttStdDev(uiHolds),
                                        pktsRecv[uiHolds]))
       IN  IF Len(built) = Len(pings)
           THEN /\ tableRows' = built
                /\ rows' = <<>>
                /\ uiPc' = "wait"
                /\ timers' = timers + 1
           ELSE /\ rows' = built
                /\ UNCHANGED <<tableRows, uiPc, timers>>
    /\ cur' = NoCells
    /\ mtx' = [mtx EXCEPT ![uiHolds] = "free"]
    /\ uiHolds' = 0
    /\ UNCHANGED <<stats, proberVars, pings, prevPings, si, sj, cmpLeft,
                   quitCmd>>

\* ------------------------------------------------ main goroutine: the sort

\* An exchange that writes only one of the two places.
SwapCopy(s, a, b) == [s EXCEPT ![a] = s[b]]

\* data.Swap(j, j-1) on a slice.
Swap(s, a, b) == [s EXCEPT ![a] = s[b], ![b] = s[a]]

\* Update(updateRowsMsg): the message of a finished updateRowsCmd arrives and
\* sort.Slice starts.  Up to 12 elements sort.Slice is an insertion sort:
\*   for i := 1; i < n; i++ { for j := i; j > 0 && less(j, j-1); j-- { swap } }
\* (indices from 1 here).
Tick ==
    /\ uiPc = "wait" /\ timers > 0
    /\ timers' = timers - 1
    /\ prevPings' = pings
    /\ IF Len(pings) < 2
       THEN uiPc' = "rows" /\ UNCHANGED <<si, sj>>
       ELSE uiPc' = "sort" /\ si' = 2 /\ sj' = 2
    /\ UNCHANGED <<stats, mtx, proberVars, pings, tableRows, rows, cur,
                   uiHolds, cmpLeft, quitCmd>>

\* A comparator that reads its left operand and keeps that Target locked
\* while it goes on to the right operand.
LessLeftKeepsLock ==
    /\ uiPc = "sort" /\ uiHolds # 0 /\ cmpLeft = <<>>
    /\ cmpLeft' = <<RttAvg(uiHolds)>>
    /\ uiHolds' = 0
    /\ UNCHANGED <<stats, mtx, proberVars, pings, prevPings, tableRows, rows,
                   cur, uiPc, si, sj, timers, quitCmd>>

\* less(j, j-1): the left operand m.pings[j].RttAvg().
LessLeft ==
    /\ uiPc = "sort" /\ uiHolds # 0 /\ cmpLeft = <<>>
    /\ cmpLeft' = <<RttAvg(uiHolds)>>
    /\ mtx' = [mtx EXCEPT ![uiHolds] = "free"]
    /\ uiHolds' = 0
    /\ UNCHANGED <<stats, proberVars, pings, prevPings, tableRows, rows, cur,
                   uiPc, si, sj, timers, quitCmd>>

\* The comparison of the sort: left < right.
Less(left, right) == left < right

\* less(j, j-1): the right operand m.pings[j-1].RttAvg(), the comparison,
\* and the step of the insertion sort it decides.
LessRight ==
    /\ uiPc = "sort" /\ uiHolds # 0 /\ cmpLeft # <<>>
    /\ LET swap == Less(cmpLeft[1], RttAvg(uiHolds))
           inner == swap /\ sj - 1 > 1
           done == ~inner /\ si + 1 > Len(pings)
       IN  /\ pings' = IF swap THEN Swap(pings, sj, sj - 1) ELSE pings
           /\ sj' = IF inner THEN sj - 1 ELSE IF done THEN 0 ELSE si + 1
           /\ si' = IF inner THEN si ELSE IF done THEN 0 ELSE si + 1
           /\ uiPc' = IF done THEN "rows" ELSE "sort"
    /\ cmpLeft' = <<>>
    /\ mtx' = [mtx EXCEPT ![uiHolds] = "free"]
    /\ uiHolds' = 0
    /\ UNCHANGED <<stats, proberVars, prevPings, tableRows, rows, cur,
                   timers, quitCmd>>

\* ---------------------------------------------- main goroutine: the keys

\* Update(tea.KeyMsg "q" or "ctrl+c"): returns tea.Quit, a command whose
\* QuitMsg reaches the event loop like any other message.
KeyQuit ==
    /\ uiPc = "wait" /\ ~quitCmd
    /\ quitCmd' = TRUE
    /\ UNCHANGED <<stats, mtx, proberVars, pings, prevPings, tableRows, rows,
                   cur, uiPc, uiHolds, si, sj, cmpLeft, timers>>

\* A loop that takes the QuitMsg off the channel and carries on.
QuitMsgDropped ==
    /\ uiPc = "wait" /\ quitCmd
    /\ quitCmd' = FALSE
    /\ UNCHANGED <<stats, mtx, proberVars, pings, prevPings, tableRows, rows,
                   cur, uiPc, uiHolds, si, sj, cmpLeft, timers>>

\* The event loop receives the QuitMsg: Run returns and main ends.
QuitMsg ==
    /\ uiPc = "wait" /\ quitCmd
    /\ uiPc' = "exited"
    /\ quitCmd' = FALSE
    /\ UNCHANGED <<stats, mtx, proberVars, pings, prevPings, tableRows, rows,
                   cur, uiHolds, si, sj, cmpLeft, timers>>

\* An Update that answers any other message with a further updateRowsCmd.
KeyOtherRearm ==
    /\ uiPc = "wait"
    /\ timers' = timers + 1
    /\ UNCHANGED <<stats, mtx, proberVars, pings, prevPings, tableRows, rows,
                   cur, uiPc, uiHolds, si, sj, cmpLeft, quitCmd>>

\* Update(any other message): m.table.Update(msg) moves the cursor; the rows,
\* the targets and the pending commands stay as they are.
KeyOther ==
    /\ uiPc = "wait"
    /\ UNCHANGED vars

\* ---------------------------------------------------------- specifications

\* main: the targets are read, one goroutine per target is started, and
\* main is about to build the first rows.
Init ==
    /\ pktsSent = [t \in Targets |-> 0]
    /\ pktsRecv = [t \in Targets |-> 0]
    /\ rttAvg = [t \in Targets |-> 0]
    /\ rttVar = [t \in Targets |-> 0]
    /\ rttStdDev = [t \in Targets |-> 0]
    /\ mtx = [t \in Targets |-> "free"]
    /\ pinger = [t \in Targets |-> "idle"]
    /\ awaiting = [t \in Targets |-> 0]
    /\ rtts = [t \in Targets |-> <<>>]
    /\ orphan = [t \in Targets |-> FALSE]
    /\ pings = [k \in 1..NTargets |-> k]
    /\ prevPings = <<>>
    /\ tableRows = <<>>
    /\ rows = <<>>
    /\ cur = NoCells
    /\ uiPc = "rows"
    /\ uiHolds = 0
    /\ si = 0
    /\ sj = 0
    /\ cmpLeft = <<>>
    /\ timers = 0
    /\ quitCmd = FALSE

\* The pinger goroutines.
Prober ==
    \E t \in Targets :
        \/ NewPingerOk(t)
        \/ NewPingerErr(t)
        \/ OnPktSendLock(t, MaxSent)
        \/ OnPktSend(t)
        \/ OnPktRecvLock(t, FALSE, MaxSent)
        \/ OnPktRecvCount(t)
        \/ \E rtt \in RTTs : OnPktRecv(t, rtt)

\* The main goroutine.
UI ==
    \/ UILock
    \/ RowPktLoss
    \/ RowRttAvg
    \/ RowRttStdDev
    \/ Tick
    \/ LessLeft
    \/ LessRight
    \/ KeyQuit
    \/ QuitMsg
    \/ KeyOther

Next == Prober \/ UI

\* The program: the pingers and the main goroutine, interleaved.
Spec == Init /\ [][Next]_vars

\* The pinger goroutines, each sending at most MaxSentLive packets, every
\* reply with the same round-trip time.
ProberLive ==
    \E t \in Targets :
        \/ NewPingerOk(t)
        \/ NewPingerErr(t)
        \/ OnPktSendLock(t, MaxSentLive)
        \/ OnPktSend(t)
        \/ OnPktRecvLock(t, FALSE, MaxSentLive)
        \/ OnPktRecvCount(t)
        \/ \E rtt \in RTTsLive : OnPktRecv(t, rtt)

NextLive == ProberLive \/ UI

\* What the scheduling gives.  A goroutine that holds a mutex is runnable and
\* the Go scheduler runs it: the steps inside a critical section are weakly
\* fair.  sync.Mutex hands the lock to a waiter that has waited long
\* (starvation mode), so the main goroutine's Lock is strongly fair.  The
\* timer of updateRowsCmd elapses and the goroutine of tea.Quit delivers its
\* message.  Keys, sends and replies come from outside: no fairness.
Fairness ==
    /\ SF_vars(UILock)
    /\ WF_vars(RowPktLoss) /\ WF_vars(RowRttAvg) /\ WF_vars(RowRttStdDev)
    /\ WF_vars(LessLeft) /\ WF_vars(LessRight)
    /\ WF_vars(Tick) /\ WF_vars(QuitMsg)
    /\ \A t \in Targets :
        /\ WF_vars(OnPktSend(t))
        /\ WF_vars(OnPktRecvCount(t))
        /\ WF_vars(\E rtt \in RTTsLive : OnPktRecv(t, rtt))

\* The program under fair scheduling.
SpecLive == Init /\ [][NextLive]_vars /\ Fairness

\* The target whose statistics the single-target specifications exercise:
\* the first line of the target list.
StatsTarget == CHOOSE t \in Targets : \A u \in Targets : t <= u

\* One pinger and its pingStats, the callbacks in the order the pinger makes
\* them: a receive answers a packet sent before.
NextStats ==
    \/ NewPingerOk(StatsTarget)
    \/ OnPktSendLock(StatsTarget, MaxSentStats)
    \/ OnPktSend(StatsTarget)
    \/ OnPktRecvLock(StatsTarget, FALSE, MaxSentStats)
    \/ OnPktRecvCount(StatsTarget)
    \/ \E rtt \in RTTsStats : OnPktRecv(StatsTarget, rtt)

SpecStats == Init /\ [][NextStats]_vars

\* One pingStats whose hooks are called in any order, as a caller other than
\* the pinger may call them.
NextHooks ==
    \/ NewPingerOk(StatsTarget)
    \/ OnPktSendLock(StatsTarget, MaxSentStats)
    \/ OnPktSend(StatsTarget)
    \/ OnPktRecvLock(StatsTarget, TRUE, MaxSentStats)
    \/ OnPktRecvCount(StatsTarget)
    \/ \E rtt \in RTTsStats : OnPktRecv(StatsTarget, rtt)

SpecHooks == Init /\ [][NextHooks]_vars

\* ------------------------------------------------------------ properties

RECURSIVE SeqSum(_)
SeqSum(s) == IF s = <<>> THEN 0 ELSE Head(s) + SeqSum(Tail(s))

RECURSIVE SeqSumSq(_)
SeqSumSq(s) == IF s = <<>> THEN 0 ELSE Head(s) * Head(s) + SeqSumSq(Tail(s))

\* The position of target t in the order s.
Pos(s, t) == CHOOSE k \in 1..Len(s) : s[k] = t

\* The rows in the table are those of a tick (not the rows main built).
RankerOutput == uiPc = "wait" /\ prevPings # <<>>

\* C1, as claimed: whatever the order of the OnPktSend and OnPktRecv calls on
\* a target, pktsRecv <= pktsSent after every call.
C1_RecvLeSentAnyCalls ==
    \A t \in Targets : pinger[t] = "run" => pktsRecv[t] <= pktsSent[t]

\* C1, amended: pktsRecv <= pktsSent holds after every call as long as every
\* OnPktRecv call so far answered a packet whose OnPktSend call came before
\* it, which is how the pinger calls them.
C1_RecvLeSent ==
    \A t \in Targets : ~orphan[t] => pktsRecv[t] <= pktsSent[t]

C1_Witness ==
    /\ pinger[StatsTarget] = "run" /\ ~orphan[StatsTarget]
    /\ pktsSent[StatsTarget] = 3 /\ pktsRecv[StatsTarget] = 3

\* C2: every row handed to the table is a snapshot of its target: no
\* OnPktRecv of the target took effect between the reads of its loss, its
\* mean and its standard deviation.
C2_RowsAreSnapshots ==
    \A k \in 1..Len(tableRows) : ~tableRows[k].torn

\* C3: in the rows of a tick, two targets whose means are equal keep the
\* order they had before the tick.
C3_StableOrder ==
    RankerOutput =>
        \A a, b \in 1..Len(tableRows) :
            (a < b /\ tableRows[a].avgRead = tableRows[b].avgRead)
                => Pos(prevPings, tableRows[a].name)
                       < Pos(prevPings, tableRows[b].name)

\* C4: the Ranker never moves a target that has received nothing in front of
\* a target that has received a reply (the instance of the claim for the
\* pairs whose order the tick has changed).
C4_NoSamplesSortLast ==
    RankerOutput =>
        \A a, b \in 1..Len(tableRows) :
            LET ta == tableRows[a].name
                tb == tableRows[b].name
            IN  ~(/\ a < b
                  /\ pktsRecv[ta] = 0 /\ pktsRecv[tb] >= 1
                  /\ Pos(prevPings, tb) < Pos(prevPings, ta))

\* C5: no row handed to the table, the first rows included, carries the
\* loss of a division by zero (NaN or an infinity).
C5_NoNaNLoss ==
    \A k \in 1..Len(tableRows) : tableRows[k].loss.kind = "num"

\* C6: with pktsSent > 0, PktLoss is (pktsSent - pktsRecv) / pktsSent * 100,
\* between 0 and 100, and exactly 50.0 for 4 sent and 2 received.
C6_PktLossValue ==
    \A t \in Targets :
        pktsSent[t] > 0 =>
            LET v == PktLoss(t)
            IN  /\ v.kind = "num" /\ v.den > 0
                /\ v.num * pktsSent[t] = (pktsSent[t] - pktsRecv[t]) * 100 * v.den
                /\ 0 <= v.num /\ v.num <= 100 * v.den
                /\ (pktsSent[t] = 4 /\ pktsRecv[t] = 2)
                       => (v.num = 50 * v.den /\ FormatLoss(v).tenths = 500)

C6_Witness ==
    /\ pinger[StatsTarget] = "run"
    /\ pktsSent[StatsTarget] = 4 /\ pktsRecv[StatsTarget] = 2

\* C7: after the first OnPktRecv(X) of a target, rttAvg = X and rttVar = 0,
\* and rttStdDev is 0 as long as fewer than two replies were received.
C7_FirstSample ==
    \A t \in Targets :
        /\ Len(rtts[t]) = 1 => (rttAvg[t] = rtts[t][1] /\ rttVar[t] = 0)
        /\ pktsRecv[t] < 2 => RttStdDev(t) = 0

C7_Witness ==
    /\ pinger[StatsTarget] = "run" /\ pktsSent[StatsTarget] = 3
    /\ rtts[StatsTarget] = <<20>> /\ rttAvg[StatsTarget] = 20

\* C8: after the samples x1..xn, rttAvg is their arithmetic mean
\* (x1 + ... + xn) / n as a duration: it is less than 1ns away from it.
C8_MeanIsArithmeticMean ==
    \A t \in Targets :
        LET n == Len(rtts[t])
            d == n * rttAvg[t] - SeqSum(rtts[t])
        IN  (n >= 1 /\ pinger[t] = "run") => (-n < d /\ d < n)

\* C9: with n >= 2 samples, rttStdDev is sqrt(rttVar / (n - 1)) as a duration
\* and this is the samples' standard deviation with Bessel's correction,
\* sqrt((n * sum(x^2) - sum(x)^2) / (n * (n - 1))): less than 1ns away from it.
C9_StdDevIsSampleStdDev ==
    \A t \in Targets :
        LET n == Len(rtts[t])
            sd == rttStdDev[t]
            nm2 == n * SeqSumSq(rtts[t]) - SeqSum(rtts[t]) * SeqSum(rtts[t])
            k == n * (n - 1)
        IN  (n >= 2 /\ pinger[t] = "run") =>
                /\ sd = ISqrt(rttVar[t] \div (n - 1))
                /\ sd = 0 \/ (sd - 1) * (sd - 1) * k < nm2
                /\ nm2 < (sd + 1) * (sd + 1) * k

\* C10: a pinger that fails to start changes nothing but its own position:
\* the process goes on (it ends only by a quit), the other pingers can go on
\* sending, and a pending tick can be handled.
C10_ProberFailureIsIsolated ==
    /\ [][\A t \in Targets :
            (pinger[t] # "failed" /\ pinger'[t] = "failed") =>
                /\ UNCHANGED <<stats, mtx, awaiting, uiVars>>
                /\ \A u \in Targets \ {t} : pinger'[u] = pinger[u]]_vars
    /\ [][(uiPc # "exited" /\ uiPc' = "exited") => quitCmd]_vars
    /\ [](\A t \in Targets :
            (pinger[t] = "failed" /\ Alive) =>
                /\ \A u \in Targets \ {t} :
                       (pinger[u] = "run" /\ mtx[u] = "free"
                            /\ pktsSent[u] < MaxSent)
                           => ENABLED OnPktSendLock(u, MaxSent)
                /\ (uiPc = "wait" /\ timers > 0) => ENABLED Tick)

C10_Witness ==
    /\ pinger[1] = "failed" /\ pinger[2] = "run"
    /\ pktsRecv[2] = 2 /\ RankerOutput
    /\ \E k \in 1..Len(tableRows) :
           tableRows[k].name = 2 /\ tableRows[k].avgRead > 0

\* C11: in the rows of every tick, a target that has received no reply (its
\* pinger failed to start, or its packets go unanswered) shows a loss of
\* 100.0%.
C11_NoReplyShowsFullLoss ==
    RankerOutput =>
        \A k \in 1..Len(tableRows) :
            pktsRecv[tableRows[k].name] = 0
                => tableRows[k].loss = [kind |-> "num", tenths |-> 1000]

\* C13: the rows of every tick are ascending by the mean shown in each row.
C13_RowsAscendingByShownMean ==
    RankerOutput =>
        \A a, b \in 1..Len(tableRows) :
            a < b => tableRows[a].avg <= tableRows[b].avg

InCallback(t) == pinger[t] \in {"send", "recv", "recvStats"}

\* C14: whenever an accessor (PktLoss, RttAvg, RttStdDev, called for a row or
\* by the comparator) is reading Target t, no OnPktSend or OnPktRecv of t is
\* in progress and t's fields are those left by whole calls: pktsRecv counts
\* exactly the samples already folded into rttAvg, rttVar and rttStdDev. The
\* half state, counted but not yet folded, is never under an accessor.
C14_AccessorsSeeWholeUpdates ==
    \A t \in Targets :
        /\ uiHolds = t => (~InCallback(t) /\ pktsRecv[t] = Len(rtts[t]))
        /\ pktsRecv[t] # Len(rtts[t]) => (pinger[t] = "recvStats" /\ uiHolds # t)

\* An accessor is reading a Target that has replies while that Target's
\* pinger has a reply to deliver and must wait.
C14_Witness ==
    \E t \in Targets :
        /\ uiHolds = t /\ uiPc = "rows" /\ cur.n = 1
        /\ pktsRecv[t] >= 1 /\ awaiting[t] > 0 /\ pinger[t] = "run"

\* C15: every mutex has at most the one holder its own Target's operation
\* is; the main goroutine holds at most one Target's mutex at a time, a
\* pinger only ever its own; and an operation that wants the free mutex of
\* one Target can take it whoever holds the mutexes of the other Targets.
C15_LockingIsPerTarget ==
    /\ Cardinality({t \in Targets : mtx[t] = "ui"}) <= 1
    /\ \A t \in Targets :
        /\ mtx[t] = "ui" <=> uiHolds = t
        /\ mtx[t] = "pinger" <=> InCallback(t)
        /\ (Alive /\ pinger[t] = "run" /\ pktsSent[t] < MaxSent /\ mtx[t] = "free")
               => ENABLED OnPktSendLock(t, MaxSent)
        /\ (Alive /\ pinger[t] = "run" /\ awaiting[t] > 0 /\ mtx[t] = "free")
               => ENABLED OnPktRecvLock(t, FALSE, MaxSent)
    /\ (uiPc \in {"rows", "sort"} /\ uiHolds = 0 /\ mtx[UITarget] = "free")
           => ENABLED UILock

\* The main goroutine holds one Target's mutex and a pinger holds another's,
\* both inside their critical sections at once.
C15_Witness ==
    \E t, u \in Targets :
        t # u /\ mtx[t] = "ui" /\ mtx[u] = "pinger" /\ pinger[u] = "recvStats"

\* The fields of Target t other than pktsSent are unchanged by the step.
OthersUnchanged(t) ==
    /\ pktsRecv'[t] = pktsRecv[t]
    /\ rttAvg'[t] = rttAvg[t]
    /\ rttVar'[t] = rttVar[t]
    /\ rttStdDev'[t] = rttStdDev[t]

\* C16: in every step and for every Target, pktsSent changes only in
\* OnPktSend, by exactly +1 and with pktsRecv, rttAvg, rttVar and rttStdDev
\* unchanged; pktsRecv changes only in OnPktRecv, by exactly +1; no step of
\* OnPktRecv changes pktsSent; rttAvg, rttVar and rttStdDev change only in
\* OnPktRecv; the steps of the main goroutine (accessors, sort, rows, keys)
\* change no field of any Target. Hence neither counter ever decreases.
C16_FrameConditions ==
    [][\A t \in Targets :
        /\ pktsSent'[t] # pktsSent[t]
               => (pinger[t] = "send" /\ pktsSent'[t] = pktsSent[t] + 1
                   /\ OthersUnchanged(t))
        /\ pktsRecv'[t] # pktsRecv[t]
               => (pinger[t] = "recv" /\ pktsRecv'[t] = pktsRecv[t] + 1)
        /\ pinger[t] \in {"recv", "recvStats"} => pktsSent'[t] = pktsSent[t]
        /\ ~OthersUnchanged(t) => pinger[t] \in {"recv", "recvStats"}
        /\ uiVars' # uiVars => (pktsSent'[t] = pktsSent[t] /\ OthersUnchanged(t))
        /\ pktsSent'[t] >= pktsSent[t] /\ pktsRecv'[t] >= pktsRecv[t]
      ]_vars

\* Both pingers have sent and received, the first MaxSent times, and a tick
\* has sorted and rendered the Targets.
C16_Witness ==
    /\ RankerOutput
    /\ pktsSent[1] = MaxSent /\ pktsRecv[1] = MaxSent
    /\ \A t \in Targets : pktsRecv[t] >= 1

\* C17: rttVar is non-negative in every reachable state, and no OnPktRecv
\* lowers it: each sample adds delta * (rtt - new mean) >= 0, also when the
\* integer division of the mean update truncates.
C17_VarNonNegative ==
    /\ [](\A t \in Targets : rttVar[t] >= 0)
    /\ [][\A t \in Targets : rttVar'[t] >= rttVar[t]]_vars

\* Samples 10, 20, 10: the third mean update truncates (-5 / 3 = -1, mean
\* 14) and the accumulator has grown to 50 + 20.
C17_Witness ==
    /\ rtts[StatsTarget] = <<10, 20, 10>>
    /\ rttAvg[StatsTarget] = 14
    /\ rttVar[StatsTarget] = 70

\* C18: m.pings is at all times a permutation of the Targets read at startup
\* and the rows of a tick name them in m.pings' order; and the fields of a
\* Target change only in the callbacks of that Target's own pinger, wherever
\* the sort has moved it.
C18_PingsIsPermutation ==
    /\ [](/\ Len(pings) = NTargets
          /\ \A t \in Targets : \E k \in 1..Len(pings) : pings[k] = t
          /\ RankerOutput =>
                 /\ Len(tableRows) = NTargets
                 /\ \A k \in 1..NTargets : tableRows[k].name = pings[k])
    /\ [][\A t \in Targets :
            (pktsSent'[t] # pktsSent[t] \/ ~OthersUnchanged(t))
                => (InCallback(t) /\ pinger'[t] # pinger[t])
         ]_vars

\* A tick has moved the first Target read to the end of m.pings, and its
\* pinger is folding a further reply into it.
C18_Witness ==
    /\ prevPings # <<>>
    /\ pings[NTargets] = StatsTarget
    /\ pinger[StatsTarget] = "recvStats"
    /\ pktsRecv[StatsTarget] = MaxSent

\* C19: under fair scheduling a held mutex is always released (or the
\* process ends), every callback that has taken its Target's mutex completes,
\* the main goroutine waiting for a mutex gets it, and every ranker run and
\* row build that has started completes.
C19_NoLockWaitsForever ==
    /\ \A t \in Targets :
        /\ (mtx[t] # "free") ~> (mtx[t] = "free" \/ ~Alive)
        /\ InCallback(t) ~> (pinger[t] = "run" \/ ~Alive)
    /\ (uiPc \in {"rows", "sort"} /\ uiHolds = 0) ~> (uiHolds # 0)
    /\ (uiPc \in {"rows", "sort"}) ~> (uiPc = "wait")

\* The main goroutine wants the mutex of a Target whose pinger holds it in
\* the middle of OnPktRecv, during a tick.
C19_Witness ==
    /\ prevPings # <<>>
    /\ uiPc \in {"rows", "sort"} /\ uiHolds = 0
    /\ mtx[UITarget] = "pinger" /\ pinger[UITarget] = "recvStats"

\* C20: whenever the loop waits for a message exactly one updateRowsCmd is
\* pending, and while Update handles its message none is (the next is armed
\* by Update's return); the count changes only by a tick consuming the
\* pending timer and by the rows' hand-over arming one, so the keys neither
\* cancel nor add a timer; and, unless a quit key is handled, the ranker
\* runs again and again.
C20_OneTimerPending ==
    /\ [](timers \in {0, 1})
    /\ []((uiPc = "wait" \/ uiPc = "exited") <=> timers = 1)
    /\ [][timers' # timers =>
            \/ uiPc = "wait" /\ uiPc' \in {"sort", "rows"} /\ timers' = timers - 1
            \/ uiPc = "rows" /\ uiPc' = "wait" /\ timers' = timers + 1]_vars
    /\ [][quitCmd' # quitCmd => timers' = timers]_vars
    /\ (<>quitCmd) \/ []<>(uiPc = "sort")

\* A tick was handled after every reply had arrived, its rows are in the
\* table, the next timer is pending and no quit key was pressed.
C20_Witness ==
    /\ RankerOutput /\ ~quitCmd
    /\ timers = 1
    /\ \A t \in Targets : pinger[t] = "run" /\ Len(rtts[t]) = MaxSentLive
    /\ \A k \in 1..Len(tableRows) : tableRows[k].loss = [kind |-> "num", tenths |-> 0]

====
